---------------------------- MODULE Spec2Model ----------------------------
(***************************************************************************)
(* Model of the resumable fetch-and-mutate pipeline of the repository:     *)
(* download_thumbnails.py (thumbnail pipeline with the Resume Ledger) and  *)
(* the dataset store shared with fetch_youtube_data.py.                    *)
(*                                                                         *)
(* Text is modelled as a sequence of tokens; every token stands for a      *)
(* substring that the code never looks inside ("/" is its own token, so    *)
(* the regular expression class [^/] and the prefix test "images/" are     *)
(* exact on token sequences).  Python's None is the one-token text None.   *)
(***************************************************************************)
EXTENDS Integers, Sequences, FiniteSets, TLC

(***************************************************************************)
(* Bounds of the model.                                                    *)
(***************************************************************************)
MaxRows == 2
MaxRuns == 2
MaxTime == 9        \* the clock of the rate limiter's specification stops here
MaxCalls == 3       \* outbound calls followed by that specification

(***************************************************************************)
(* Text helpers (str.strip, str.startswith, the "in" substring test).      *)
(***************************************************************************)
None == <<"<None>">>
SP == " "

RECURSIVE lstrip(_)
lstrip(s) == IF s # <<>> /\ Head(s) = SP THEN lstrip(Tail(s)) ELSE s

RECURSIVE rstrip(_)
rstrip(s) ==
    IF s # <<>> /\ s[Len(s)] = SP THEN rstrip(SubSeq(s, 1, Len(s) - 1)) ELSE s

strip(s) == rstrip(lstrip(s))

startswith(s, p) == Len(s) >= Len(p) /\ SubSeq(s, 1, Len(p)) = p

contains(s, tok) == \E i \in 1..Len(s) : s[i] = tok

(***************************************************************************)
(* The dataset file: a header and the records under it.  A record may be   *)
(* shorter than the header (a ragged line of the file).                    *)
(***************************************************************************)
LINK == "Link"
IMG == "Gorsel URL"      \* the image-reference column
TITLE == "Baslik"        \* the title column
Header == <<LINK, IMG, TITLE>>

IndexOf(seq, x) == CHOOSE i \in 1..Len(seq) : seq[i] = x

\* csv.DictReader: one dict per record, keyed by the header; a field the
\* record lacks gets restval, which is None.
read_rows(file) ==
    [r \in 1..Len(file.records) |->
        [name \in {file.header[j] : j \in 1..Len(file.header)} |->
            LET j == IndexOf(file.header, name)
            IN  IF j <= Len(file.records[r]) THEN file.records[r][j] ELSE None]]

\* csv.DictWriter: fieldnames are the keys of the first row, in order; the
\* writer emits None as the empty field.
csv_field(v) == IF v = None THEN <<>> ELSE v

write_rows_file(rows, fieldnames) ==
    [header  |-> fieldnames,
     records |-> [r \in 1..Len(rows) |->
                    [j \in 1..Len(fieldnames) |-> csv_field(rows[r][fieldnames[j]])]]]


(***************************************************************************)
(* ProgressTracker: the Resume Ledger.  completed_ids is a list, failed_ids *)
(* a dict from id to the last failure reason.                              *)
(***************************************************************************)
EmptyLedger == [completed_ids |-> <<>>, failed_ids |-> <<>>]

\* ProgressTracker.load: a missing file, or one json.load cannot parse, gives
\* the empty ledger.
load(file) == IF file.exists /\ file.valid THEN file.data ELSE EmptyLedger

\* a ledger in which a failed id counts as done too
is_known(data, id) ==
    \/ \E i \in 1..Len(data.completed_ids) : data.completed_ids[i] = id
    \/ id \in DOMAIN data.failed_ids

\* ProgressTracker.is_completed
is_completed(data, id) == \E i \in 1..Len(data.completed_ids) : data.completed_ids[i] = id

\* a mark_completed without the membership test
mark_completed_again(data, id) == [data EXCEPT !.completed_ids = Append(@, id)]

\* ProgressTracker.mark_completed, up to its save()
mark_completed(data, id) ==
    IF is_completed(data, id)
    THEN data
    ELSE [data EXCEPT !.completed_ids = Append(@, id)]

\* mark_failed that forgets the entry
mark_failed_lost(data, id, reason) == data

\* ProgressTracker.mark_failed, up to its save()
mark_failed(data, id, reason) ==
    [data EXCEPT !.failed_ids =
        [x \in (DOMAIN @) \cup {id} |-> IF x = id THEN reason ELSE @[x]]]

\* ProgressTracker.save: open(progress_file, 'w') empties the file in place,
\* then json.dump writes the whole in-memory ledger into it.
Truncated == [exists |-> TRUE, valid |-> FALSE, data |-> EmptyLedger]
save(data) == [exists |-> TRUE, valid |-> TRUE, data |-> data]

(***************************************************************************)
(* SkipChecker.should_skip                                                 *)
(***************************************************************************)
should_skip(image_url) ==
    IF image_url = <<>> \/ strip(image_url) = <<>>
    THEN FALSE
    ELSE LET u == strip(image_url)
         IN  IF startswith(u, <<"images", "/">>)
             THEN TRUE
             ELSE IF contains(u, "unsplash.com") \/ contains(u, "placeholder")
                  THEN FALSE
                  ELSE FALSE

(***************************************************************************)
(* InstagramScraper.parse_instagram_url: re.search of                      *)
(*   https://www\.instagram\.com/(p|reel)/([^/]+)                          *)
(***************************************************************************)
HOST == "https://www.instagram.com"

MatchAt(url, i) ==
    /\ i + 4 <= Len(url)
    /\ url[i] = HOST
    /\ url[i + 1] = "/"
    /\ url[i + 2] \in {"p", "reel"}
    /\ url[i + 3] = "/"
    /\ url[i + 4] # "/"

\* the greedy group ([^/]+) that starts at position j
RECURSIVE NonSlashRun(_, _)
NonSlashRun(url, j) ==
    IF j <= Len(url) /\ url[j] # "/"
    THEN <<url[j]>> \o NonSlashRun(url, j + 1)
    ELSE <<>>

NoMatch == [ok |-> FALSE, url_type |-> "", post_id |-> <<>>]

parse_instagram_url(url) ==
    IF \E i \in 1..Len(url) : MatchAt(url, i)
    THEN LET i == CHOOSE i \in 1..Len(url) :
                    MatchAt(url, i) /\ \A h \in 1..(i - 1) : ~MatchAt(url, h)
         IN  [ok       |-> TRUE,
              url_type |-> IF url[i + 2] = "p" THEN "post" ELSE "reel",
              post_id  |-> NonSlashRun(url, i + 4)]
    ELSE NoMatch

\* filename = f"{url_type}_{post_id}.jpg"
Filename(url_type, post_id) == <<url_type, "_">> \o post_id \o <<".jpg">>

\* f"{args.output_dir}/{filename}", also the path output_dir / filename
LocalRef(output_dir, filename) == <<output_dir, "/">> \o filename

\* the download written straight to the asset path
TempIsFinal(filepath) == filepath

\* filepath.with_suffix('.tmp')
TempPath(filepath) == SubSeq(filepath, 1, Len(filepath) - 1) \o <<".tmp">>

\* a check that takes any content for an image
verify_anything(content) == TRUE

\* ImageDownloader.verify_image: Image.open(...).verify() on the content
verify_image(content) == content = "image"

(***************************************************************************)
(* Inputs: the rows a dataset file may hold and the command lines of a run. *)
(***************************************************************************)
UrlPostA == <<HOST, "/", "p", "/", "A", "/">>
UrlReelA == <<HOST, "/", "reel", "/", "A", "/">>
UrlPostB == <<SP, HOST, "/", "p", "/", "B", "/", SP>>
UrlBad   == <<"https://instagram.com", "/", "p", "/", "A", "/">>

ImgUnsplash    == <<"https://", "unsplash.com", "/", "photo">>
ImgLocal       == <<"images", "/", "old.jpg">>
ImgThumbs      == <<"thumbs", "/", "old.jpg">>
ImgLocalHolder == <<"images", "/", "placeholder", ".jpg">>

\* A record may be a ragged line of the file: one that stops before the title
\* column, or a line of one blank that stops before the image column.
RowPool ==
    { <<UrlPostA, ImgUnsplash, <<"t">>>>,
      <<UrlReelA, <<>>, <<"t">>>>,
      <<UrlPostB, <<>>>>,
      <<<<>>, <<>>, <<"t">>>>,
      <<<<SP>>, ImgUnsplash, <<>>>>,
      <<UrlPostA, ImgLocal, <<"t">>>>,
      <<UrlPostB, ImgThumbs, <<"t">>>>,
      <<UrlPostB, ImgLocalHolder, <<"t">>>>,
      <<UrlBad, <<>>, <<"t">>>>,
      <<UrlBad, ImgLocal, <<"t">>>>,
      <<<<SP>>>> }

Datasets == UNION { [1..n -> RowPool] : n \in 1..MaxRows }

\* --rows after split(',') and int(): a part is <<n>> or <<start, end>>;
\* <<>> is the option not given.  "2-2,2" and the reversed range "2-1".
DefaultArgs ==
    [output_dir |-> "images", skip_existing |-> FALSE, no_backup |-> FALSE,
     dry_run |-> FALSE, rows |-> <<>>]

ArgChoices ==
    { DefaultArgs,
      [DefaultArgs EXCEPT !.rows = << <<2, 2>>, <<2>> >>],
      [DefaultArgs EXCEPT !.rows = << <<2, 1>> >>],
      [DefaultArgs EXCEPT !.output_dir = "thumbs"],
      [DefaultArgs EXCEPT !.skip_existing = TRUE],
      [DefaultArgs EXCEPT !.no_backup = TRUE],
      [DefaultArgs EXCEPT !.dry_run = TRUE] }

(***************************************************************************)
(* fetch_youtube_data.py: the video-metadata pipeline over the same        *)
(* dataset store.  It keeps no ledger and has no rate limiter.             *)
(***************************************************************************)
PLATFORM == "Platform"
DESCRIPTION == "Aciklama"    \* the description column
DATE == "Tarih"              \* the publish-date column
YTHeader == <<PLATFORM, LINK, TITLE, DESCRIPTION, IMG, DATE>>

\* str.lower on the platform names the datasets use
lower(s) == [i \in 1..Len(s) |-> IF s[i] = "YouTube" THEN "youtube" ELSE s[i]]

\* A URL is the tokens <<scheme, hostname, path..., "?", query...>>.
urlhostname(url) == IF Len(url) >= 2 /\ url[1] = "https://" THEN url[2] ELSE ""
QueryAt(url) == IF contains(url, "?") THEN IndexOf(url, "?") ELSE Len(url) + 1
urlpath(url) == SubSeq(url, 3, QueryAt(url) - 1)
urlquery(url) == SubSeq(url, QueryAt(url) + 1, Len(url))

RECURSIVE lstripSlash(_)
lstripSlash(s) == IF s # <<>> /\ Head(s) = "/" THEN lstripSlash(Tail(s)) ELSE s

\* YouTubeFetcher.extract_video_id; <<>> stands for None and for ''
extract_video_id(url) ==
    IF url = <<>>
    THEN <<>>
    ELSE IF urlhostname(url) \in {"www.youtube.com", "youtube.com"}
    THEN IF urlpath(url) = <<"/watch">>
         THEN IF \E i \in 1..(Len(urlquery(url)) - 1) :
                     urlquery(url)[i] = "v=" /\ urlquery(url)[i + 1] # "&"
              THEN <<urlquery(url)[1 + CHOOSE i \in 1..(Len(urlquery(url)) - 1) :
                                    urlquery(url)[i] = "v=" /\ urlquery(url)[i + 1] # "&"]>>
              ELSE <<>>
         ELSE IF urlpath(url) # <<>> /\ urlpath(url)[1] = "/embed/"
         THEN IF Len(urlpath(url)) >= 2 THEN <<urlpath(url)[2]>> ELSE <<>>
         ELSE <<>>
    ELSE IF urlhostname(url) = "youtu.be"
    THEN lstripSlash(urlpath(url))
    ELSE <<>>

\* format_date: ISO 8601 to DD.MM.YYYY, the input itself when it does not parse
format_date(iso) ==
    IF Len(iso) = 8 /\ iso[2] = "-" /\ iso[4] = "-" /\ iso[6] = "T" /\ iso[8] = "Z"
    THEN <<iso[5], ".", iso[3], ".", iso[1]>>
    ELSE iso

\* line 247: the rows of the video platform
IsYoutubeRow(row) ==
    \/ lower(strip(row[PLATFORM])) = <<"youtube">>
    \/ \E i \in 1..Len(strip(row[LINK])) :
            strip(row[LINK])[i] \in {"youtube.com", "www.youtube.com", "youtu.be"}

RECURSIVE SelectSeq2(_, _)
SelectSeq2(rs, i) ==
    IF i > Len(rs) THEN <<>>
    ELSE (IF IsYoutubeRow(rs[i]) THEN <<i>> ELSE <<>>) \o SelectSeq2(rs, i + 1)

\* lines 242-248: youtube_rows, as positions
youtube_rows(rs) == SelectSeq2(rs, 1)

UrlWatch == <<"https://", "www.youtube.com", "/watch", "?", "v=", "V1">>
UrlShort == <<"https://", "youtu.be", "/", "V2">>
UrlEmbed == <<"https://", "www.youtube.com", "/embed/", "V3">>
UrlShorts == <<"https://", "www.youtube.com", "/shorts/", "V4">>

YTRowPool ==
    { <<<<"YouTube">>, UrlWatch, <<"t">>, <<>>, <<>>, <<>>>>,
      <<<<>>, UrlShort, <<"t">>, <<"t">>, <<"thumb">>, <<"01.01.2020">>>>,
      <<<<"YouTube">>, UrlEmbed, <<"t">>, <<"about">>, <<"thumb">>, <<"01.01.2020">>>>,
      <<<<"YouTube">>, UrlShorts, <<"t">>, <<>>, <<>>, <<>>>>,
      <<<<"Instagram">>, UrlPostA, <<"t">>, <<>>, <<>>, <<>>>>,
      <<<<"YouTube">>, UrlWatch, <<"t">>>>,
      <<<<"YouTube">>>> }

YTDatasets == UNION { [1..n -> YTRowPool] : n \in 1..MaxRows }

YTDefaultArgs == [no_backup |-> FALSE, dry_run |-> FALSE]
YTArgChoices ==
    { YTDefaultArgs,
      [YTDefaultArgs EXCEPT !.no_backup = TRUE],
      [YTDefaultArgs EXCEPT !.dry_run = TRUE] }

\* what fetch_video_data returns: None, or the snippet of the video
NoData == [ok |-> FALSE, description |-> <<>>, thumbnail_url |-> None,
           published_at |-> <<>>]
VideoResults ==
    { NoData,
      [ok |-> TRUE, description |-> <<"about">>,
       thumbnail_url |-> <<"https://", "i.ytimg.com", "/", "maxres.jpg">>,
       published_at |-> <<"2024", "-", "01", "-", "15", "T", "10:00:00", "Z">>],
      [ok |-> TRUE, description |-> <<>>, thumbnail_url |-> None,
       published_at |-> <<"unknown">>] }

YTZeroStats == [total |-> 0, updated |-> 0, skipped |-> 0, failed |-> 0]

(***************************************************************************)
(* State.                                                                  *)
(***************************************************************************)
VARIABLES
    \* on disk
    csvFile,        \* the dataset file
    backupFile,     \* the .csv.backup copy
    ledgerFile,     \* .download_progress.json
    files,          \* the output directories: a set of [path, content]
    failedReport,   \* failed_urls.txt
    backup3File,    \* the .csv.backup3 copy of fetch_youtube_data.py
    ytReport,       \* failed_youtube_urls.txt
    \* the running process (main of the tool in use)
    tool,           \* "thumbnails" or "youtube": the program this dataset is fed to
    pc,             \* position of main
    status,         \* how the last process ended
    args,
    rows,           \* the rows in memory
    original_count,
    rows_to_process,\* the positions (1-based) of the selected rows, in order
    k,              \* index into rows_to_process of the row in hand
    stats,
    failed_urls,
    progress,       \* ProgressTracker.data
    parsed,         \* (url_type, post_id) of the row in hand
    \* history of the run, for stating the properties
    runs,           \* processes started so far
    outcome,        \* row position -> terminal outcome in this run
    failReason,     \* row position -> the reason given for its failure
    resolved,       \* positions whose resolution made a network call
    fetched,        \* positions for which download() was called
    waits,          \* positions for which _wait() was called
    ledgerMarks,    \* positions for which a ledger mutator was called
    rewrites,       \* write_rows calls of this run
    summaries,      \* run summaries printed by this run
    rows0,          \* the rows as loaded at the start of this run
    csvAtStart,     \* the dataset file at the start of this run
    orphans,        \* <<position, reference on disk>> of the rows completed in
                    \* a run that ended before its rewrite
    everCompleted,  \* the ids some save() has written as completed
    netlog,         \* row position -> what the resolver did for it in this run
    \* the clock, the scraper's limiter and the calls of the resolvers (RateSpec)
    limiter,
    \* the last call made on the ProgressTracker (LedgerSpec)
    ledgerCall

disk == <<csvFile, backupFile, ledgerFile, files, failedReport>>
ytdisk == <<backup3File, ytReport>>
proc == <<pc, status, args, rows, original_count, rows_to_process, k, stats,
          failed_urls, progress, parsed>>
hist == <<runs, outcome, failReason, resolved, fetched, waits, ledgerMarks, rewrites,
          summaries, rows0, csvAtStart, orphans, everCompleted>>
vars == <<disk, ytdisk, tool, proc, hist, netlog, limiter, ledgerCall>>

\* CSVHandler.backup: shutil.copy of the dataset file
backup(file) == [exists |-> TRUE, content |-> file]

\* the backup flag read the wrong way round
BackupIfDisabled(a) == a.no_backup /\ ~a.dry_run

\* line 376 (line 258 of fetch_youtube_data.py)
ShouldBackup(a) == ~a.no_backup /\ ~a.dry_run

NoFile == [exists |-> FALSE, valid |-> FALSE, data |-> EmptyLedger]
NoCopy == [exists |-> FALSE, content |-> [header |-> <<>>, records |-> <<>>]]
ZeroStats == [total |-> 0, downloaded |-> 0, skipped |-> 0, failed |-> 0]

DEFAULT_DELAY == 3
\* the values of --delay that are followed
DelayChoices == {1, DEFAULT_DELAY}
\* no InstagramScraper has been constructed. time.time() is seconds since 1970,
\* so the clock starts at least one delay after the 0 that __init__ puts in
\* last_request_time.
NoScraper ==
    [now |-> DEFAULT_DELAY, delay |-> DEFAULT_DELAY, last_request_time |-> 0,
     at |-> "none", log |-> <<>>]

NoCall == [op |-> "none", id |-> <<>>]

\* everything but the ledger file
InitButLedger ==
    /\ \/ /\ tool = "thumbnails"
          /\ \E d \in Datasets : csvFile = [header |-> Header, records |-> d]
       \/ /\ tool = "youtube"
          /\ \E d \in YTDatasets : csvFile = [header |-> YTHeader, records |-> d]
    /\ backup3File = NoCopy
    /\ ytReport = <<>>
    /\ backupFile = NoCopy
    /\ files = {}
    /\ failedReport = <<>>
    /\ pc = "idle"
    /\ status = "none"
    /\ args = DefaultArgs
    /\ rows = <<>>
    /\ original_count = 0
    /\ rows_to_process = <<>>
    /\ k = 0
    /\ stats = ZeroStats
    /\ failed_urls = <<>>
    /\ progress = EmptyLedger
    /\ parsed = NoMatch
    /\ runs = 0
    /\ outcome = <<>>
    /\ failReason = <<>>
    /\ resolved = {}
    /\ fetched = {}
    /\ waits = {}
    /\ ledgerMarks = {}
    /\ rewrites = 0
    /\ summaries = 0
    /\ rows0 = <<>>
    /\ csvAtStart = csvFile
    /\ orphans = {}
    /\ everCompleted = {}
    /\ netlog = <<>>
    /\ limiter = NoScraper
    /\ ledgerCall = NoCall

Init == InitButLedger /\ ledgerFile = NoFile

(***************************************************************************)
(* The output directories.                                                 *)
(***************************************************************************)
exists(fs, path) == \E f \in fs : f.path = path
content(fs, path) == (CHOOSE f \in fs : f.path = path).content
remove(fs, path) == {f \in fs : f.path # path}
write(fs, path, c) == remove(fs, path) \cup {[path |-> path, content |-> c]}
\* shutil.move(src, dst) within one directory: a rename
move(fs, src, dst) == write(remove(fs, src), dst, content(fs, src))

(***************************************************************************)
(* main of download_thumbnails.py, from the start to the row loop.         *)
(***************************************************************************)
\* range(start, end + 1) of a part, or its single number
PartRows(part) == IF Len(part) = 2 THEN part[1]..part[2] ELSE {part[1]}

RECURSIVE sorted(_)
sorted(S) ==
    IF S = {}
    THEN <<>>
    ELSE LET m == CHOOSE x \in S : \A y \in S : x <= y
         IN  <<m>> \o sorted(S \ {m})

\* parse_row_range: sorted(set(rows))
parse_row_range(row_spec) ==
    sorted(UNION {PartRows(row_spec[n]) : n \in 1..Len(row_spec)})

\* lines 369-372: row_indices stays None (here <<>>) without the option
RowIndices(a) == IF a.rows # <<>> THEN parse_row_range(a.rows) ELSE <<>>

\* line 414: "if row_indices and i not in row_indices: continue"
FilteredOut(row_indices, i) == row_indices # <<>> /\ ~contains(row_indices, i)

RECURSIVE FilterFrom(_, _, _)
FilterFrom(rs, row_indices, i) ==
    IF i > Len(rs)
    THEN <<>>
    ELSE (IF FilteredOut(row_indices, i) THEN <<>> ELSE <<i>>)
            \o FilterFrom(rs, row_indices, i + 1)

\* lines 411-416: rows_to_process, as positions
FilterRows(rs, a) == FilterFrom(rs, RowIndices(a), 1)

StartRun(a) ==
    /\ tool = "thumbnails"
    /\ pc \in {"idle", "exited"}
    /\ runs < MaxRuns
    /\ runs' = runs + 1
    /\ args' = a
    /\ progress' = load(ledgerFile)
    /\ rows' = read_rows(csvFile)
    /\ rows0' = read_rows(csvFile)
    /\ csvAtStart' = csvFile
    /\ original_count' = Len(read_rows(csvFile))
    /\ backupFile' = IF ShouldBackup(a) THEN backup(csvFile) ELSE backupFile
    /\ stats' = ZeroStats
    /\ failed_urls' = <<>>
    /\ parsed' = NoMatch
    /\ outcome' = [i \in 1..Len(read_rows(csvFile)) |-> "none"]
    /\ failReason' = [i \in 1..Len(read_rows(csvFile)) |-> ""]
    /\ resolved' = {}
    /\ fetched' = {}
    /\ waits' = {}
    /\ ledgerMarks' = {}
    /\ rewrites' = 0
    /\ summaries' = 0
    /\ IF a.dry_run
       THEN /\ pc' = "exited"
            /\ status' = "dry"
            /\ rows_to_process' = <<>>
            /\ k' = 0
       ELSE /\ rows_to_process' = FilterRows(read_rows(csvFile), a)
            /\ k' = 1
            /\ pc' = IF FilterRows(read_rows(csvFile), a) = <<>> THEN "finish" ELSE "row"
            /\ status' = "running"
    /\ UNCHANGED <<csvFile, ledgerFile, files, failedReport, orphans, everCompleted>>
    /\ UNCHANGED <<ytdisk, tool>>
    /\ netlog' = [i \in 1..Len(read_rows(csvFile)) |-> <<>>]
    /\ UNCHANGED <<limiter, ledgerCall>>

(***************************************************************************)
(* One row of the loop of main.                                            *)
(***************************************************************************)
Cur == rows_to_process[k]

\* "continue", or the end of the loop body: on to the next selected row
NextRow ==
    /\ k' = k + 1
    /\ pc' = IF k + 1 > Len(rows_to_process) THEN "finish" ELSE "row"
    /\ parsed' = NoMatch

\* a counter update that is lost
CountNothing(field) == stats

Count(field) == [stats EXCEPT ![field] = @ + 1]

\* line 426: the row has no link
NoLink(instagram_url) == instagram_url = <<>>

\* the rows of this run whose success is in the ledger but not in the dataset
Unlinked ==
    {<<i, csvFile.records[i][IndexOf(csvFile.header, IMG)]>> :
        i \in {j \in DOMAIN outcome : outcome[j] = "downloaded"}}

\* lines 423-424: row.get(...).strip() on a field the record lacks is
\* None.strip(), an AttributeError
RowRaises == rows[Cur][LINK] = None \/ rows[Cur][IMG] = None

\* lines 420-424 when they raise: nothing in main catches the exception, the
\* process ends with a traceback
BeginRowRaises ==
    /\ pc = "row"
    /\ RowRaises
    /\ stats' = [stats EXCEPT !.total = @ + 1]
    /\ pc' = "exited"
    /\ status' = "raised"
    /\ orphans' = orphans \cup Unlinked
    /\ UNCHANGED <<disk, ytdisk, tool, args, rows, original_count,
                   rows_to_process, k, failed_urls, progress, parsed, runs,
                   outcome, failReason, resolved, fetched, waits, ledgerMarks,
                   rewrites, summaries, rows0, csvAtStart, everCompleted>>
    /\ UNCHANGED netlog
    /\ UNCHANGED <<limiter, ledgerCall>>

\* the URL check that lets every row through
InvalidUrlNever(p) == FALSE

\* line 438: "if not parsed"
InvalidUrl(p) == ~p.ok

\* lines 420-451: the skip checks and the URL parse
BeginRow ==
    /\ pc = "row"
    /\ ~RowRaises
    /\ LET instagram_url == strip(rows[Cur][LINK])
           current_image_url == strip(rows[Cur][IMG])
           p == parse_instagram_url(instagram_url)
           total == [stats EXCEPT !.total = @ + 1]
       IN  IF NoLink(instagram_url)
           THEN /\ stats' = [total EXCEPT !.skipped = @ + 1]
                /\ outcome' = [outcome EXCEPT ![Cur] = "skipped: no link"]
                /\ NextRow
                /\ UNCHANGED <<failed_urls, failReason>>
           ELSE IF should_skip(current_image_url)
           THEN /\ stats' = [total EXCEPT !.skipped = @ + 1]
                /\ outcome' = [outcome EXCEPT ![Cur] = "skipped: local image"]
                /\ NextRow
                /\ UNCHANGED <<failed_urls, failReason>>
           ELSE IF InvalidUrl(p)
           THEN /\ stats' = [total EXCEPT !.failed = @ + 1]
                /\ failed_urls' = Append(failed_urls, <<instagram_url, "Invalid URL">>)
                /\ outcome' = [outcome EXCEPT ![Cur] = "failed"]
                /\ failReason' = [failReason EXCEPT ![Cur] = "Invalid URL"]
                /\ NextRow
           ELSE IF is_completed(progress, p.post_id)
           THEN /\ stats' = [total EXCEPT !.skipped = @ + 1]
                /\ outcome' = [outcome EXCEPT ![Cur] = "skipped: completed"]
                /\ NextRow
                /\ UNCHANGED <<failed_urls, failReason>>
           ELSE /\ stats' = total
                /\ parsed' = p
                /\ pc' = "primary"
                /\ UNCHANGED <<failed_urls, outcome, failReason, k>>
    /\ UNCHANGED <<disk, status, args, rows, original_count, rows_to_process,
                   progress, runs, resolved, fetched, waits, ledgerMarks,
                   rewrites, summaries, rows0, csvAtStart, orphans, everCompleted>>
    /\ UNCHANGED <<ytdisk, tool>>
    /\ UNCHANGED netlog
    /\ UNCHANGED <<limiter, ledgerCall>>

\* the row in hand ends Failed: lines 459-463 and 477-480, up to the point
\* where mark_failed has changed the ledger in memory and save() has opened
\* the ledger file for writing
RowFailed(reason) ==
    /\ stats' = Count("failed")
    /\ failed_urls' = Append(failed_urls, <<strip(rows[Cur][LINK]), reason>>)
    /\ progress' = mark_failed(progress, parsed.post_id, reason)
    /\ ledgerFile' = Truncated
    /\ ledgerMarks' = ledgerMarks \cup {Cur}
    /\ failReason' = [failReason EXCEPT ![Cur] = reason]
    /\ pc' = "save_failed"
    /\ UNCHANGED <<outcome, k, parsed>>

\* every stage of a resolution is tried, whatever the one before gave
AlwaysFallback(ok) == "fallback"

\* lines 161-168: a thumbnail_url from the embed endpoint is returned at
\* once; an error, an error status or a missing field falls through
AfterPrimary(ok) == IF ok THEN "download" ELSE "fallback"

\* fetch_thumbnail_url, lines 148-165: _wait(), then the embed endpoint
Primary(ok) ==
    /\ pc = "primary"
    /\ waits' = waits \cup {Cur}
    /\ resolved' = resolved \cup {Cur}
    /\ netlog' = [netlog EXCEPT ![Cur] =
                    @ \o <<"wait", IF ok THEN "primary:ok" ELSE "primary:fail">>]
    /\ pc' = AfterPrimary(ok)
    /\ UNCHANGED <<disk, status, args, rows, original_count, rows_to_process, k,
                   stats, failed_urls, progress, parsed, runs, outcome,
                   failReason, fetched, ledgerMarks, rewrites, summaries, rows0, csvAtStart, orphans, everCompleted>>
    /\ UNCHANGED <<ytdisk, tool>>
    /\ UNCHANGED <<limiter, ledgerCall>>

\* fetch_thumbnail_url, lines 167-185: the page fetch; both stages failing
\* raises "Thumbnail URL not found" in main
Fallback(ok) ==
    /\ pc = "fallback"
    /\ waits' = waits \cup {Cur}
    /\ resolved' = resolved \cup {Cur}
    /\ netlog' = [netlog EXCEPT ![Cur] =
                    @ \o <<"wait", IF ok THEN "fallback:ok" ELSE "fallback:fail">>]
    /\ IF ok
       THEN /\ pc' = "download"
            /\ UNCHANGED <<stats, failed_urls, progress, ledgerFile, ledgerMarks,
                           outcome, failReason, k, parsed>>
       ELSE RowFailed("Thumbnail URL not found")
    /\ UNCHANGED <<csvFile, backupFile, files, failedReport, status, args, rows,
                   original_count, rows_to_process, runs, fetched, rewrites,
                   summaries, rows0, csvAtStart, orphans, everCompleted>>
    /\ UNCHANGED <<ytdisk, tool>>
    /\ UNCHANGED <<limiter, ledgerCall>>

(***************************************************************************)
(* ImageDownloader.download and the bookkeeping of main after it.          *)
(***************************************************************************)
filepath == LocalRef(args.output_dir, Filename(parsed.url_type, parsed.post_id))

\* a downloader that never finds the file in place
NeverSkipExisting(a, fs, path) == FALSE

\* line 206: if self.skip_existing and filepath.exists()
SkipExisting(a, fs, path) == a.skip_existing /\ exists(fs, path)

\* lines 202-222: the skip-existing test, the request, the size check and the
\* opening of the temp file.  response is what the server answers:
\* "error" (transport error or error status), "toolarge" (declared length
\* above MAX_FILE_SIZE) or "ok".
DownloadRequest(response) ==
    /\ pc = "download"
    /\ fetched' = fetched \cup {Cur}
    /\ netlog' = [netlog EXCEPT ![Cur] =
                    Append(@, IF SkipExisting(args, files, filepath)
                              THEN "get:existing"
                              ELSE IF response = "ok" THEN "get:ok"
                              ELSE IF response = "toolarge" THEN "get:toolarge"
                              ELSE "get:error")]
    /\ IF SkipExisting(args, files, filepath)
       THEN /\ pc' = "success"
            /\ UNCHANGED <<files, stats, failed_urls, progress, ledgerFile,
                           ledgerMarks, outcome, failReason, k, parsed>>
       ELSE IF response = "ok"
       THEN /\ files' = write(files, TempPath(filepath), "partial")
            /\ pc' = "stream"
            /\ UNCHANGED <<stats, failed_urls, progress, ledgerFile, ledgerMarks,
                           outcome, failReason, k, parsed>>
       ELSE /\ RowFailed("Download failed")
            /\ UNCHANGED files
    /\ UNCHANGED <<csvFile, backupFile, failedReport, status, args, rows,
                   original_count, rows_to_process, runs, resolved, waits,
                   rewrites, summaries, rows0, csvAtStart, orphans, everCompleted>>
    /\ UNCHANGED <<ytdisk, tool>>
    /\ UNCHANGED <<limiter, ledgerCall>>

\* lines 223-224: the body is streamed into the temp file.  body is "image",
\* "garbage" (not an image) or "error" (the transport fails in mid-stream,
\* which the except clause of line 236 turns into False).
Stream(body) ==
    /\ pc = "stream"
    /\ netlog' = [netlog EXCEPT ![Cur] =
                    Append(@, IF body = "error" THEN "body:error"
                              ELSE IF body = "image" THEN "body:image"
                              ELSE "body:garbage")]
    /\ IF body = "error"
       THEN /\ RowFailed("Download failed")
            /\ UNCHANGED files
       ELSE /\ files' = write(files, TempPath(filepath), body)
            /\ pc' = "verify"
            /\ UNCHANGED <<stats, failed_urls, progress, ledgerFile, ledgerMarks,
                           outcome, failReason, k, parsed>>
    /\ UNCHANGED <<csvFile, backupFile, failedReport, status, args, rows,
                   original_count, rows_to_process, runs, resolved, fetched,
                   waits, rewrites, summaries, rows0, csvAtStart, orphans, everCompleted>>
    /\ UNCHANGED <<ytdisk, tool>>
    /\ UNCHANGED <<limiter, ledgerCall>>

\* lines 226-234: verification, then the rename to the final path
Verify ==
    /\ pc = "verify"
    /\ IF verify_image(content(files, TempPath(filepath)))
       THEN /\ files' = move(files, TempPath(filepath), filepath)
            /\ pc' = "success"
            /\ UNCHANGED <<stats, failed_urls, progress, ledgerFile, ledgerMarks,
                           outcome, failReason, k, parsed>>
       ELSE /\ files' = remove(files, TempPath(filepath))
            /\ RowFailed("Download failed")
    /\ UNCHANGED <<csvFile, backupFile, failedReport, status, args, rows,
                   original_count, rows_to_process, runs, resolved, fetched,
                   waits, rewrites, summaries, rows0, csvAtStart, orphans, everCompleted>>
    /\ UNCHANGED <<ytdisk, tool>>
    /\ UNCHANGED netlog
    /\ UNCHANGED <<limiter, ledgerCall>>

\* lines 470-475: download returned True
Success ==
    /\ pc = "success"
    /\ rows' = [rows EXCEPT ![Cur][IMG] =
                    LocalRef(args.output_dir, Filename(parsed.url_type, parsed.post_id))]
    /\ stats' = Count("downloaded")
    /\ progress' = mark_completed(progress, parsed.post_id)
    /\ ledgerFile' = Truncated
    /\ ledgerMarks' = ledgerMarks \cup {Cur}
    /\ pc' = "save_completed"
    /\ UNCHANGED <<csvFile, backupFile, files, failedReport, status, args,
                   original_count, rows_to_process, k, failed_urls, parsed, runs,
                   outcome, failReason, resolved, fetched, waits, rewrites,
                   summaries, rows0, csvAtStart, orphans, everCompleted>>
    /\ UNCHANGED <<ytdisk, tool>>
    /\ UNCHANGED netlog
    /\ UNCHANGED <<limiter, ledgerCall>>

\* ProgressTracker.save, lines 59-60, from json.dump to the close of the file;
\* mark_completed or mark_failed returns and the loop goes on
SaveDone ==
    /\ pc \in {"save_completed", "save_failed"}
    /\ ledgerFile' = save(progress)
    /\ everCompleted' = everCompleted \cup
                            {progress.completed_ids[j] : j \in 1..Len(progress.completed_ids)}
    /\ outcome' = [outcome EXCEPT ![Cur] =
                        IF pc = "save_completed" THEN "downloaded" ELSE "failed"]
    /\ NextRow
    /\ UNCHANGED <<csvFile, backupFile, files, failedReport, status, args, rows,
                   original_count, rows_to_process, stats, failed_urls, progress,
                   runs, failReason, resolved, fetched, waits, ledgerMarks, rewrites, summaries, rows0,
                   csvAtStart, orphans>>
    /\ UNCHANGED <<ytdisk, tool>>
    /\ UNCHANGED netlog
    /\ UNCHANGED <<limiter, ledgerCall>>

(***************************************************************************)
(* The end of main: the rewrite, the integrity check, the summary.         *)
(***************************************************************************)
\* CSVHandler.write_rows, with the fieldnames of rows[0]
write_rows(file, rs) ==
    IF rs = <<>> THEN file ELSE write_rows_file(rs, file.header)

\* a rewrite at the end of every run
AlwaysRewrite(st) == st.total >= 0

\* line 483: the dataset is rewritten when at least one row was downloaded
ShouldRewrite(st) == st.downloaded > 0

\* lines 482-487: the rewrite
WriteCsv ==
    /\ pc = "finish"
    /\ IF ShouldRewrite(stats)
       THEN /\ csvFile' = write_rows(csvFile, rows)
            /\ rewrites' = rewrites + 1
            /\ pc' = "integrity"
       ELSE /\ pc' = "summary"
            /\ UNCHANGED <<csvFile, rewrites>>
    /\ UNCHANGED <<backupFile, ledgerFile, files, failedReport, status, args,
                   rows, original_count, rows_to_process, k, stats, failed_urls,
                   progress, parsed, runs, outcome, failReason, resolved, fetched,
                   waits, ledgerMarks, summaries, rows0, csvAtStart, orphans, everCompleted>>
    /\ UNCHANGED <<ytdisk, tool>>
    /\ UNCHANGED netlog
    /\ UNCHANGED <<limiter, ledgerCall>>

\* lines 485-493: write_rows raises (the disk refuses the temp file or the
\* rename): the run reports and exits with status 1, the dataset untouched
WriteCsvError ==
    /\ pc = "finish"
    /\ ShouldRewrite(stats)
    /\ pc' = "exited"
    /\ status' = "error"
    /\ orphans' = orphans \cup Unlinked
    /\ UNCHANGED <<disk, args, rows, original_count, rows_to_process, k, stats,
                   failed_urls, progress, parsed, runs, outcome, failReason,
                   resolved, fetched, waits, ledgerMarks, rewrites, summaries, rows0,
                   csvAtStart, everCompleted>>
    /\ UNCHANGED <<ytdisk, tool>>
    /\ UNCHANGED netlog
    /\ UNCHANGED <<limiter, ledgerCall>>

\* CSVHandler.verify_integrity, and lines 489-493 when it raises
VerifyIntegrity ==
    /\ pc = "integrity"
    /\ IF Len(read_rows(csvFile)) # original_count
       THEN /\ pc' = "exited"
            /\ status' = "error"
       ELSE /\ pc' = "summary"
            /\ UNCHANGED status
    /\ UNCHANGED <<disk, args, rows, original_count, rows_to_process, k, stats,
                   failed_urls, progress, parsed, hist>>
    /\ UNCHANGED <<ytdisk, tool>>
    /\ UNCHANGED netlog
    /\ UNCHANGED <<limiter, ledgerCall>>

\* lines 495-508: the summary and the failure report
Summary ==
    /\ pc = "summary"
    /\ summaries' = summaries + 1
    /\ failedReport' = IF failed_urls # <<>> THEN failed_urls ELSE failedReport
    /\ pc' = "exited"
    /\ status' = "ok"
    /\ UNCHANGED <<csvFile, backupFile, ledgerFile, files, args, rows,
                   original_count, rows_to_process, k, stats, failed_urls,
                   progress, parsed, runs, outcome, failReason, resolved, fetched,
                   waits, ledgerMarks, rewrites, rows0, csvAtStart, orphans, everCompleted>>
    /\ UNCHANGED <<ytdisk, tool>>
    /\ UNCHANGED netlog
    /\ UNCHANGED <<limiter, ledgerCall>>

(***************************************************************************)
(* fetch_youtube_data.py: the run of the video-metadata pipeline.           *)
(***************************************************************************)
\* lines 244-245: .strip() on a Platform or Link the record lacks raises
FilterRaises(rs) == \E i \in 1..Len(rs) : rs[i][PLATFORM] = None \/ rs[i][LINK] = None

\* main of fetch_youtube_data.py, lines 232-280
YTStart(a) ==
    /\ tool = "youtube"
    /\ pc \in {"idle", "exited"}
    /\ runs < MaxRuns
    /\ runs' = runs + 1
    /\ args' = a
    /\ rows' = read_rows(csvFile)
    /\ rows0' = read_rows(csvFile)
    /\ csvAtStart' = csvFile
    /\ original_count' = Len(read_rows(csvFile))
    /\ rows_to_process' = IF FilterRaises(read_rows(csvFile))
                          THEN <<>>
                          ELSE youtube_rows(read_rows(csvFile))
    /\ backup3File' = IF ~FilterRaises(read_rows(csvFile))
                         /\ youtube_rows(read_rows(csvFile)) # <<>>
                         /\ ShouldBackup(a)
                      THEN backup(csvFile)
                      ELSE backup3File
    /\ stats' = YTZeroStats
    /\ failed_urls' = <<>>
    /\ outcome' = [i \in 1..Len(read_rows(csvFile)) |-> "none"]
    /\ failReason' = [i \in 1..Len(read_rows(csvFile)) |-> ""]
    /\ resolved' = {}
    /\ rewrites' = 0
    /\ summaries' = 0
    /\ IF FilterRaises(read_rows(csvFile))
       THEN /\ pc' = "exited"
            /\ status' = "raised"
            /\ k' = 0
       ELSE IF youtube_rows(read_rows(csvFile)) = <<>>
       THEN /\ pc' = "exited"
            /\ status' = "ok"
            /\ k' = 0
       ELSE IF a.dry_run
       THEN /\ pc' = "exited"
            /\ status' = "dry"
            /\ k' = 0
       ELSE /\ pc' = "yt_row"
            /\ status' = "running"
            /\ k' = 1
    /\ UNCHANGED <<disk, ytReport, tool, progress, parsed, fetched, waits,
                   ledgerMarks, orphans, everCompleted>>
    /\ netlog' = [i \in 1..Len(read_rows(csvFile)) |-> <<>>]
    /\ UNCHANGED <<limiter, ledgerCall>>

\* a date test that never finds a date
never_has_date(row) == FALSE

\* lines 302-305: the row already has its data
has_real_description(row) ==
    strip(row[DESCRIPTION]) # <<>> /\ strip(row[DESCRIPTION]) # strip(row[TITLE])
has_image(row) == strip(row[IMG]) # <<>>
has_date(row) == strip(row[DATE]) # <<>>

\* lines 318-324: the fields a fetched row gets
UpdateRow(row, video_data) ==
    [name \in DOMAIN row |->
        IF name = DESCRIPTION /\ ~has_real_description(row)
        THEN video_data.description
        ELSE IF name = IMG /\ ~has_image(row)
        THEN video_data.thumbnail_url
        ELSE IF name = DATE /\ ~has_date(row)
        THEN format_date(video_data.published_at)
        ELSE row[name]]

YTNextRow ==
    /\ k' = k + 1
    /\ pc' = IF k + 1 > Len(rows_to_process) THEN "yt_finish" ELSE "yt_row"

\* lines 297-300: .strip() on a field the record lacks raises, once the row
\* has a video id
YTRowRaises ==
    /\ extract_video_id(strip(rows[Cur][LINK])) # <<>>
    /\ \E name \in {DESCRIPTION, TITLE, IMG, DATE} : rows[Cur][name] = None

\* lines 284-300 when they raise: the process ends with a traceback
YTRowAborts ==
    /\ pc = "yt_row"
    /\ YTRowRaises
    /\ stats' = [stats EXCEPT !.total = @ + 1]
    /\ pc' = "exited"
    /\ status' = "raised"
    /\ UNCHANGED <<disk, ytdisk, tool, args, rows, original_count,
                   rows_to_process, k, failed_urls, progress, parsed, hist>>
    /\ UNCHANGED netlog
    /\ UNCHANGED <<limiter, ledgerCall>>

\* lines 283-327: one row of the loop; video_data is what the lookup returns
YTRow(video_data) ==
    /\ pc = "yt_row"
    /\ ~YTRowRaises
    /\ LET link == strip(rows[Cur][LINK])
           video_id == extract_video_id(link)
           total == [stats EXCEPT !.total = @ + 1]
       IN  IF video_id = <<>>
           THEN /\ stats' = [total EXCEPT !.failed = @ + 1]
                /\ failed_urls' = Append(failed_urls, <<link, "Invalid URL">>)
                /\ outcome' = [outcome EXCEPT ![Cur] = "failed"]
                /\ failReason' = [failReason EXCEPT ![Cur] = "Invalid URL"]
                /\ UNCHANGED <<rows, resolved, netlog>>
           ELSE IF has_real_description(rows[Cur]) /\ has_image(rows[Cur])
                   /\ has_date(rows[Cur])
           THEN /\ stats' = [total EXCEPT !.skipped = @ + 1]
                /\ outcome' = [outcome EXCEPT ![Cur] = "skipped: has data"]
                /\ UNCHANGED <<rows, resolved, netlog, failed_urls, failReason>>
           ELSE IF ~video_data.ok
           THEN /\ stats' = [total EXCEPT !.failed = @ + 1]
                /\ failed_urls' = Append(failed_urls, <<link, "Failed to fetch data">>)
                /\ outcome' = [outcome EXCEPT ![Cur] = "failed"]
                /\ failReason' = [failReason EXCEPT ![Cur] = "Failed to fetch data"]
                /\ resolved' = resolved \cup {Cur}
                /\ netlog' = [netlog EXCEPT ![Cur] = @ \o <<"lookup">>]
                /\ UNCHANGED rows
           ELSE /\ rows' = [rows EXCEPT ![Cur] = UpdateRow(@, video_data)]
                /\ stats' = [total EXCEPT !.updated = @ + 1]
                /\ outcome' = [outcome EXCEPT ![Cur] = "updated"]
                /\ resolved' = resolved \cup {Cur}
                /\ netlog' = [netlog EXCEPT ![Cur] = @ \o <<"lookup">>]
                /\ UNCHANGED <<failed_urls, failReason>>
    /\ YTNextRow
    /\ UNCHANGED <<disk, ytdisk, tool, status, args, original_count,
                   rows_to_process, progress, parsed, runs, fetched, waits,
                   ledgerMarks, rewrites, summaries, rows0, csvAtStart, orphans,
                   everCompleted>>
    /\ UNCHANGED <<limiter, ledgerCall>>

\* line 330: the dataset is rewritten when at least one row was updated
YTShouldRewrite(st) == st.updated > 0

\* lines 329-338: the rewrite and the integrity check
YTWriteCsv ==
    /\ pc = "yt_finish"
    /\ IF YTShouldRewrite(stats)
       THEN /\ csvFile' = write_rows(csvFile, rows)
            /\ rewrites' = rewrites + 1
            /\ IF Len(read_rows(write_rows(csvFile, rows))) # original_count
               THEN pc' = "exited" /\ status' = "error"
               ELSE pc' = "yt_summary" /\ UNCHANGED status
       ELSE /\ pc' = "yt_summary"
            /\ UNCHANGED <<csvFile, rewrites, status>>
    /\ UNCHANGED <<backupFile, ledgerFile, files, failedReport, ytdisk, tool,
                   args, rows, original_count, rows_to_process, k, stats,
                   failed_urls, progress, parsed, runs, outcome, failReason,
                   resolved, fetched, waits, ledgerMarks, summaries, rows0,
                   csvAtStart, orphans, everCompleted>>
    /\ UNCHANGED netlog
    /\ UNCHANGED <<limiter, ledgerCall>>

\* lines 336-338: write_rows raises, the run exits with status 1
YTWriteCsvError ==
    /\ pc = "yt_finish"
    /\ YTShouldRewrite(stats)
    /\ pc' = "exited"
    /\ status' = "error"
    /\ UNCHANGED <<disk, ytdisk, tool, args, rows, original_count,
                   rows_to_process, k, stats, failed_urls, progress, parsed, hist>>
    /\ UNCHANGED netlog
    /\ UNCHANGED <<limiter, ledgerCall>>

\* lines 340-353: the summary and the failure report
YTSummary ==
    /\ pc = "yt_summary"
    /\ summaries' = summaries + 1
    /\ ytReport' = IF failed_urls # <<>> THEN failed_urls ELSE ytReport
    /\ pc' = "exited"
    /\ status' = "ok"
    /\ UNCHANGED <<disk, backup3File, tool, args, rows, original_count,
                   rows_to_process, k, stats, failed_urls, progress, parsed,
                   runs, outcome, failReason, resolved, fetched, waits,
                   ledgerMarks, rewrites, rows0, csvAtStart, orphans,
                   everCompleted>>
    /\ UNCHANGED netlog
    /\ UNCHANGED <<limiter, ledgerCall>>

\* The process is terminated from outside (there is no other cancellation):
\* the memory is gone, the disk stays as it is.
Crash ==
    /\ pc \in {"row", "primary", "fallback", "download", "stream", "verify",
               "success", "save_completed", "save_failed", "finish",
               "integrity", "summary", "yt_row", "yt_finish", "yt_summary"}
    /\ pc' = "exited"
    /\ status' = "killed"
    /\ orphans' = IF rewrites = 0 /\ tool = "thumbnails"
                  THEN orphans \cup Unlinked
                  ELSE orphans
    /\ UNCHANGED <<disk, args, rows, original_count, rows_to_process, k, stats,
                   failed_urls, progress, parsed, runs, outcome, failReason,
                   resolved, fetched, waits, ledgerMarks, rewrites, summaries, rows0,
                   csvAtStart, everCompleted>>
    /\ UNCHANGED <<ytdisk, tool>>
    /\ UNCHANGED netlog
    /\ UNCHANGED <<limiter, ledgerCall>>

Next ==
    \/ \E a \in ArgChoices : StartRun(a)
    \/ BeginRow
    \/ BeginRowRaises
    \/ \E ok \in BOOLEAN : Primary(ok)
    \/ \E ok \in BOOLEAN : Fallback(ok)
    \/ \E response \in {"ok", "toolarge", "error"} : DownloadRequest(response)
    \/ \E body \in {"image", "garbage", "error"} : Stream(body)
    \/ Verify
    \/ Success
    \/ SaveDone
    \/ WriteCsv
    \/ WriteCsvError
    \/ VerifyIntegrity
    \/ Summary
    \/ \E a \in YTArgChoices : YTStart(a)
    \/ \E video_data \in VideoResults : YTRow(video_data)
    \/ YTRowAborts
    \/ YTWriteCsv
    \/ YTWriteCsvError
    \/ YTSummary
    \/ Crash

Spec == Init /\ [][Next]_vars

(***************************************************************************)
(* The clock and the rate limiter: InstagramScraper._wait and the calls    *)
(* fetch_thumbnail_url makes around it, and the lookup of                  *)
(* YouTubeFetcher.fetch_video_data, which has no limiter.  limiter.log is  *)
(* the history of this part: a wait with the times it started and          *)
(* returned, a call with the time it was sent.                             *)
(***************************************************************************)
NoSleep(now, last_request_time, delay) == 0

\* _wait: elapsed = time.time() - last_request_time; sleep(delay - elapsed)
\* when elapsed < delay
SleepFor(now, last_request_time, delay) ==
    LET elapsed == now - last_request_time
    IN  IF elapsed < delay THEN delay - elapsed ELSE 0

Calls == SelectSeq(limiter.log, LAMBDA e : e.ev # "wait")

RateProgramUnchanged == UNCHANGED <<disk, ytdisk, tool, proc, hist, netlog, ledgerCall>>

\* time passes, between any two statements
Tick ==
    /\ limiter.now < MaxTime
    /\ limiter' = [limiter EXCEPT !.now = @ + 1]
    /\ RateProgramUnchanged

\* scraper = InstagramScraper(args.delay)
NewScraper(delay) ==
    /\ tool = "thumbnails"
    /\ limiter.at = "none"
    /\ limiter' = [limiter EXCEPT !.delay = delay, !.last_request_time = 0,
                                  !.at = "idle"]
    /\ RateProgramUnchanged

\* self._wait(), before the primary call and again before the fallback call.
\* time.sleep returns after at least the time asked for: late is the excess.
Wait(late) ==
    /\ limiter.at \in {"idle", "primary:fail"}
    /\ Len(Calls) < MaxCalls
    /\ LET secs == SleepFor(limiter.now, limiter.last_request_time, limiter.delay)
           woke == limiter.now + secs + (IF secs > 0 THEN late ELSE 0)
       IN  /\ woke <= MaxTime
           /\ limiter' = [limiter EXCEPT
                  !.now = woke,
                  !.last_request_time = woke,
                  !.at = IF limiter.at = "idle" THEN "waited:primary"
                                                ELSE "waited:fallback",
                  !.log = @ \o <<[ev |-> "wait", start |-> limiter.now,
                                  ret |-> woke]>>]
    /\ RateProgramUnchanged

\* the primary embed call of fetch_thumbnail_url
PrimaryCall(ok) ==
    /\ limiter.at = "waited:primary"
    /\ limiter' = [limiter EXCEPT
           !.at = IF AfterPrimary(ok) = "download" THEN "idle" ELSE "primary:fail",
           !.log = @ \o <<[ev |-> "primary", start |-> limiter.now,
                           ret |-> limiter.now]>>]
    /\ RateProgramUnchanged

\* the fallback page fetch of fetch_thumbnail_url
FallbackCall ==
    /\ limiter.at = "waited:fallback"
    /\ limiter' = [limiter EXCEPT
           !.at = "idle",
           !.log = @ \o <<[ev |-> "fallback", start |-> limiter.now,
                           ret |-> limiter.now]>>]
    /\ RateProgramUnchanged

\* the keyed metadata lookup of fetch_video_data: sent as soon as it is reached
Lookup ==
    /\ tool = "youtube"
    /\ Len(Calls) < MaxCalls
    /\ limiter' = [limiter EXCEPT
           !.log = @ \o <<[ev |-> "lookup", start |-> limiter.now,
                           ret |-> limiter.now]>>]
    /\ RateProgramUnchanged

RateNext ==
    \/ Tick
    \/ \E delay \in DelayChoices : NewScraper(delay)
    \/ \E late \in {0, 1} : Wait(late)
    \/ \E ok \in BOOLEAN : PrimaryCall(ok)
    \/ FallbackCall
    \/ Lookup

RateSpec == Init /\ [][RateNext]_vars

(***************************************************************************)
(* The ProgressTracker on its own: the ledger file a process finds, the    *)
(* load at the construction of the tracker with the report of lines        *)
(* 380-387 of main, and the calls of its mutators in any order, over any   *)
(* number of processes.                                                    *)
(***************************************************************************)
LedgerIds == {<<"A">>, <<"B">>}
LedgerReasons == {"Thumbnail URL not found", "Download failed"}

\* What json.load gives for the file: a ledger, a ledger whose completed list
\* names an id twice, an object without the failed_ids section, and the
\* object {}.  A file that is not valid is one open() or json.load() raises on.
LedgerFiles ==
    { NoFile,
      Truncated,
      save(EmptyLedger),
      save([completed_ids |-> <<<<"A">>>>,
            failed_ids |-> [x \in {<<"B">>} |-> "Download failed"]]),
      save([completed_ids |-> <<<<"A">>, <<"A">>>>, failed_ids |-> <<>>]),
      save([completed_ids |-> <<>>]),
      save(<<>>) }

LedgerInit == InitButLedger /\ tool = "thumbnails" /\ ledgerFile \in LedgerFiles

\* progress.data['completed_ids'] and progress.data['failed_ids'] can be read
HasSections(data) == {"completed_ids", "failed_ids"} \subseteq DOMAIN data

LedgerRest ==
    UNCHANGED <<csvFile, backupFile, files, failedReport, ytdisk, tool, args,
                rows, original_count, rows_to_process, k, stats, failed_urls,
                parsed, hist, netlog, limiter>>

\* progress = ProgressTracker() (line 357), then lines 380-387: the lengths of
\* both sections are read, a KeyError ends the process
LoadLedger ==
    /\ pc = "idle"
    /\ progress' = load(ledgerFile)
    /\ ledgerCall' = [op |-> "load", id |-> <<>>]
    /\ IF HasSections(load(ledgerFile))
       THEN pc' = "ledger" /\ status' = "running"
       ELSE pc' = "exited" /\ status' = "raised"
    /\ UNCHANGED ledgerFile
    /\ LedgerRest

\* progress.mark_completed(id), with its save()
MarkCompleted(id) ==
    /\ pc = "ledger"
    /\ progress' = mark_completed(progress, id)
    /\ ledgerFile' = save(mark_completed(progress, id))
    /\ ledgerCall' = [op |-> "mark_completed", id |-> id]
    /\ UNCHANGED <<pc, status>>
    /\ LedgerRest

\* progress.mark_failed(id, reason), with its save()
MarkFailed(id, reason) ==
    /\ pc = "ledger"
    /\ progress' = mark_failed(progress, id, reason)
    /\ ledgerFile' = save(mark_failed(progress, id, reason))
    /\ ledgerCall' = [op |-> "mark_failed", id |-> id]
    /\ UNCHANGED <<pc, status>>
    /\ LedgerRest

\* the process ends; the next one finds the file as it was left
EndProcess ==
    /\ pc \in {"ledger", "exited"}
    /\ pc' = "idle"
    /\ status' = "none"
    /\ ledgerCall' = NoCall
    /\ UNCHANGED <<ledgerFile, progress>>
    /\ LedgerRest

LedgerNext ==
    \/ LoadLedger
    \/ \E id \in LedgerIds : MarkCompleted(id)
    \/ \E id \in LedgerIds, reason \in LedgerReasons : MarkFailed(id, reason)
    \/ EndProcess

LedgerSpec == LedgerInit /\ [][LedgerNext]_vars

(***************************************************************************)
(* Vocabulary of the properties.                                           *)
(***************************************************************************)
\* the external id of the row at position i, as the run parsed it
Id(i) == parse_instagram_url(strip(rows0[i][LINK])).post_id
HasId(i) == parse_instagram_url(strip(rows0[i][LINK])).ok

\* the ledger as a process starting now would load it
OnDisk == load(ledgerFile)
CompletedOnDisk == {OnDisk.completed_ids[j] : j \in 1..Len(OnDisk.completed_ids)}

\* a reference to a placeholder-image host
IsPlaceholder(ref) == contains(ref, "unsplash.com") \/ contains(ref, "placeholder")

\* main is resolving or fetching the row in hand
Working == pc \in {"primary", "fallback", "download", "stream", "verify"}

(***************************************************************************)
(* C1.  Round trip of the rewrite: when write_rows and verify_integrity    *)
(* have gone through, re-loading the dataset gives as many rows as were    *)
(* loaded, and every field but the image reference of a downloaded row has *)
(* the value it was loaded with.                                           *)
(***************************************************************************)
C1_RoundTrip ==
    (pc = "summary" /\ rewrites = 1) =>
        LET again == read_rows(csvFile)
        IN  /\ Len(again) = Len(rows0)
            /\ \A i \in 1..Len(rows0) : \A name \in DOMAIN rows0[i] :
                    \/ name = IMG /\ outcome[i] = "downloaded"
                    \/ again[i][name] = rows0[i][name]

(***************************************************************************)
(* C2.  Idempotence across runs: an id that some save() has written as     *)
(* completed is never resolved or fetched again, and a process that starts *)
(* after a run has ended still finds it completed.                         *)
(***************************************************************************)
C2_CompletedNeverAgain ==
    /\ Working => parsed.post_id \notin everCompleted
    /\ pc = "exited" => everCompleted \subseteq CompletedOnDisk

(***************************************************************************)
(* C3.  Orphaned success: a row marked completed in a run that ended       *)
(* before its rewrite stays completed on disk with its asset in place, and *)
(* the dataset file keeps the old reference of that row.                   *)
(***************************************************************************)
IdInFile(i) == parse_instagram_url(strip(read_rows(csvFile)[i][LINK]))

C3_OrphanStays ==
    \A o \in orphans :
        /\ IdInFile(o[1]).post_id \in CompletedOnDisk
        /\ \E f \in files :
                /\ f.content = "image"
                /\ SubSeq(f.path, 3, Len(f.path)) =
                        Filename(IdInFile(o[1]).url_type, IdInFile(o[1]).post_id)
        /\ read_rows(csvFile)[o[1]][IMG] = o[2]

(***************************************************************************)
(* C4.  Crash consistency: when the process is terminated before the       *)
(* rewrite, the ledger on disk records the outcome of every row whose      *)
(* processing had finished, and the dataset file is as it was at the start *)
(* of the run.                                                             *)
(***************************************************************************)
C4_CrashConsistent ==
    (status = "killed" /\ rewrites = 0) =>
        /\ csvFile = csvAtStart
        /\ \A i \in DOMAIN outcome :
            /\ outcome[i] = "downloaded" => Id(i) \in CompletedOnDisk
            /\ (outcome[i] = "failed" /\ HasId(i)) =>
                    /\ Id(i) \in DOMAIN OnDisk.failed_ids

(***************************************************************************)
(* C5.  The dataset rewrite: every step that writes the dataset file is    *)
(* the first rewrite of its run, is taken at the end-of-run phase when     *)
(* every selected row has its terminal outcome, and is taken only when     *)
(* some row succeeded in that run.  So a run without a success never       *)
(* writes the file and no rewrite happens between rows.  Both pipelines.   *)
(***************************************************************************)
Selected == {rows_to_process[j] : j \in 1..Len(rows_to_process)}

C5_RewriteOnceAtEnd ==
    [][ (csvFile' # csvFile \/ rewrites' > rewrites) =>
            /\ rewrites = 0
            /\ rewrites' = 1
            /\ pc \in {"finish", "yt_finish"}
            /\ \A i \in Selected : outcome[i] # "none"
            /\ \E i \in Selected : outcome[i] \in {"downloaded", "updated"} ]_vars

\* a run of two rows, one failed and one succeeded, has rewritten the file
C5_Witness ==
    /\ rewrites = 1
    /\ Len(rows_to_process) = 2
    /\ \E i \in Selected : outcome[i] = "failed"
    /\ csvFile # csvAtStart

(***************************************************************************)
(* C6.  As stated: at the end of a run every row counted as failed has a   *)
(* failed(reason) entry under its id in the ledger on disk and a           *)
(* (source URL, reason) entry in the failure list.                         *)
(***************************************************************************)
RunEnded == pc \in {"summary", "yt_summary"} \/ (pc = "exited" /\ status = "ok")

InFailureList(i) ==
    \E n \in 1..Len(failed_urls) :
        failed_urls[n] = <<strip(rows0[i][LINK]), failReason[i]>>

C6_EveryFailureInLedger ==
    RunEnded =>
        \A i \in DOMAIN outcome :
            outcome[i] = "failed" =>
                /\ InFailureList(i)
                /\ HasId(i)
                /\ Id(i) \in DOMAIN OnDisk.failed_ids
                /\ OnDisk.failed_ids[Id(i)] = failReason[i]

(***************************************************************************)
(* C6, amended.  At the end of a run every row counted as failed has its   *)
(* (source URL, reason) entry in the failure list.  A resolution or fetch  *)
(* failure of the thumbnail pipeline is also in the ledger, in memory and  *)
(* on disk, under the id of the row, with the reason of a failed row of    *)
(* this run that has that id.  An invalid source URL and every failure of  *)
(* the video pipeline leave no mark in the ledger.                         *)
(***************************************************************************)
C6_FailuresRecorded ==
    RunEnded =>
        \A i \in DOMAIN outcome :
            outcome[i] = "failed" =>
                /\ InFailureList(i)
                /\ IF tool = "thumbnails" /\ failReason[i] # "Invalid URL"
                   THEN /\ HasId(i)
                        /\ Id(i) \in DOMAIN progress.failed_ids
                        /\ \E j \in DOMAIN outcome :
                                /\ outcome[j] = "failed"
                                /\ Id(j) = Id(i)
                                /\ progress.failed_ids[Id(i)] = failReason[j]
                        /\ OnDisk.failed_ids = progress.failed_ids
                   ELSE i \notin ledgerMarks

\* a run ended with an invalid-URL failure and a fetch failure
C6_Witness ==
    /\ RunEnded
    /\ tool = "thumbnails"
    /\ \E i, j \in DOMAIN outcome :
            /\ outcome[i] = "failed" /\ failReason[i] = "Invalid URL"
            /\ outcome[j] = "failed" /\ failReason[j] = "Download failed"

(***************************************************************************)
(* C7.  No per-row failure aborts the run: a process that ended by itself  *)
(* (it was not terminated from outside) has brought every selected row to  *)
(* a terminal outcome.                                                     *)
(***************************************************************************)
EndedByItself == pc = "exited" /\ status \in {"ok", "error", "raised"}

C7_EveryRowTerminal ==
    EndedByItself => \A i \in Selected : outcome[i] # "none"

(***************************************************************************)
(* C8.  A row whose image reference starts with the configured output      *)
(* directory prefix and is not a placeholder reference is never resolved   *)
(* or fetched.                                                             *)
(***************************************************************************)
C8_LocalPrefixSkipped ==
    tool = "thumbnails" =>
        \A i \in DOMAIN outcome :
            ( /\ startswith(strip(rows0[i][IMG]), <<args.output_dir, "/">>)
              /\ ~IsPlaceholder(strip(rows0[i][IMG])) )
            => i \notin resolved \cup fetched

(***************************************************************************)
(* C9.  A row whose image reference is a placeholder reference is never    *)
(* skipped by the existing-local-reference check.                          *)
(***************************************************************************)
C9_PlaceholderNeverSkipped ==
    tool = "thumbnails" =>
        \A i \in DOMAIN outcome :
            IsPlaceholder(strip(rows0[i][IMG])) => outcome[i] # "skipped: local image"

(***************************************************************************)
(* C10.  A row with an empty or whitespace-only link causes no resolution, *)
(* no fetch, no rate-limiter wait and no ledger update, and a process that *)
(* ended by itself has counted it as skipped.                              *)
(***************************************************************************)
C10_EmptyLinkSkipped ==
    tool = "thumbnails" =>
        \A i \in Selected :
            strip(rows0[i][LINK]) = <<>> =>
                /\ i \notin resolved \cup fetched \cup waits \cup ledgerMarks
                /\ EndedByItself => outcome[i] = "skipped: no link"

(***************************************************************************)
(* C11.  As stated: a selected row whose link does not parse to a type and *)
(* an id causes no network call and no rate-limiter wait, and once the     *)
(* loop is done with it, it is Failed with the reason "Invalid URL".       *)
(***************************************************************************)
\* the loop is done with the row at position i
Done(i) == \E j \in 1..Len(rows_to_process) : rows_to_process[j] = i /\ j < k

\* the link of row i does not parse, for the tool in use
Malformed(i) ==
    IF tool = "thumbnails"
    THEN ~HasId(i)
    ELSE extract_video_id(strip(rows0[i][LINK])) = <<>>

C11_MalformedFails ==
    \A i \in Selected :
        Malformed(i) =>
            /\ i \notin resolved \cup fetched \cup waits
            /\ Done(i) => outcome[i] = "failed" /\ failReason[i] = "Invalid URL"

(***************************************************************************)
(* C11, amended.  A malformed link causes no network call and no wait.     *)
(* In the thumbnail pipeline the empty-link check and the existing-local-  *)
(* reference check come first: a row they skip is counted as skipped, and  *)
(* every other row with a malformed link is Failed with "Invalid URL", in  *)
(* the failure list and not in the ledger.  In the video pipeline every    *)
(* row without a video id, the empty link included, is Failed with         *)
(* "Invalid URL".                                                          *)
(***************************************************************************)
C11_InvalidUrlFails ==
    \A i \in Selected :
        Malformed(i) =>
            /\ i \notin resolved \cup fetched \cup waits \cup ledgerMarks
            /\ Done(i) =>
                IF tool = "thumbnails" /\ strip(rows0[i][LINK]) = <<>>
                THEN outcome[i] = "skipped: no link"
                ELSE IF tool = "thumbnails" /\ should_skip(strip(rows0[i][IMG]))
                THEN outcome[i] = "skipped: local image"
                ELSE /\ outcome[i] = "failed"
                     /\ failReason[i] = "Invalid URL"
                     /\ InFailureList(i)

\* the loop went past a malformed link and resolved another row over the network
C11_Witness ==
    /\ tool = "thumbnails"
    /\ \E i, j \in Selected :
            /\ Malformed(i) /\ Done(i) /\ failReason[i] = "Invalid URL"
            /\ j \in resolved

(***************************************************************************)
(* C12.  Two-stage resolution of a post or reel link.  What the resolver   *)
(* does for a row is one of: the primary call alone, which gave the asset  *)
(* URL; the primary call, which failed, and then the fallback call.  After *)
(* a failed primary call the fallback is the next thing main does.  When   *)
(* both stages failed the row is failed with "Thumbnail URL not found" in  *)
(* the failure list and in the ledger, and its fields are as loaded.       *)
(***************************************************************************)
\* what fetch_thumbnail_url did for the row at position i
IsResolverEvent(e) ==
    e \in {"wait", "primary:ok", "primary:fail", "fallback:ok", "fallback:fail"}
ResolverLog(i) == SelectSeq(netlog[i], IsResolverEvent)

\* the row at position i is the one main has in hand
InHand(i) == k \in 1..Len(rows_to_process) /\ rows_to_process[k] = i

C12_TwoStageResolution ==
    tool = "thumbnails" =>
        \A i \in DOMAIN netlog :
            /\ ResolverLog(i) \in { <<>>,
                               <<"wait", "primary:ok">>,
                               <<"wait", "primary:fail">>,
                               <<"wait", "primary:fail", "wait", "fallback:ok">>,
                               <<"wait", "primary:fail", "wait", "fallback:fail">> }
            /\ netlog[i] = <<"wait", "primary:fail">> =>
                    InHand(i) /\ (pc = "fallback" \/ status = "killed")
            /\ (Len(netlog[i]) = 4 /\ netlog[i][4] = "fallback:fail") =>
                    /\ failReason[i] = "Thumbnail URL not found"
                    /\ InFailureList(i)
                    /\ i \in ledgerMarks
                    /\ Id(i) \in DOMAIN progress.failed_ids
                    /\ InHand(i) => progress.failed_ids[Id(i)] = "Thumbnail URL not found"
                    /\ (outcome[i] = "failed" /\ ledgerFile.valid) =>
                            Id(i) \in DOMAIN ledgerFile.data.failed_ids
                    /\ rows[i] = rows0[i]
                    /\ i \notin fetched

\* a run in which one row was resolved by the primary call alone and another
\* failed both stages
C12_Witness ==
    /\ tool = "thumbnails"
    /\ \E i, j \in DOMAIN netlog :
            /\ ResolverLog(i) = <<"wait", "primary:ok">>
            /\ netlog[j] = <<"wait", "primary:fail", "wait", "fallback:fail">>
            /\ outcome[j] = "failed"

(***************************************************************************)
(* C13.  A download whose declared content length is above the ceiling is  *)
(* rejected: the step that takes the answer writes no file, neither the    *)
(* temp file nor the asset, and the row is failed in the ledger and in the *)
(* failure list with a reason that names the size.                         *)
(***************************************************************************)
Last(seq) == seq[Len(seq)]

\* this step is download() getting an oversize answer for row i
OversizeStep(i) ==
    /\ i \in DOMAIN netlog
    /\ Len(netlog'[i]) = Len(netlog[i]) + 1
    /\ Last(netlog'[i]) = "get:toolarge"

C13_OversizeRejected ==
    [][ \A i \in DOMAIN netlog' :
            OversizeStep(i) =>
                /\ files' = files
                /\ i \in ledgerMarks'
                /\ Id(i) \in DOMAIN progress'.failed_ids
                /\ \E n \in 1..Len(failed_urls') :
                        failed_urls'[n] = <<strip(rows0[i][LINK]), failReason'[i]>>
                /\ failReason'[i] = "File too large" ]_vars

(***************************************************************************)
(* C14.  Fetch atomicity: a file at an asset path (any path of the output  *)
(* directory that is not a temp path) is always a complete, verified       *)
(* image; the asset paths change only in the rename that follows a passed  *)
(* verification; and no step of a fetch, interrupted or not, changes the   *)
(* dataset file.                                                           *)
(***************************************************************************)
Assets(fs) == {f \in fs : Last(f.path) # ".tmp"}

C14_FetchAtomic ==
    /\ [](\A f \in Assets(files) : f.content = "image")
    /\ [][ /\ Assets(files') # Assets(files) => pc = "verify" /\ pc' = "success"
           /\ pc \in {"download", "stream", "verify"} => csvFile' = csvFile ]_vars

\* the process was killed while the temp file was partly written, next to an
\* asset of an earlier row
C14_Witness ==
    /\ status = "killed"
    /\ \E f \in files : Last(f.path) = ".tmp" /\ f.content = "partial"
    /\ Assets(files) # {}

(***************************************************************************)
(* C15.  With a row-range selector the rows processed are exactly the rows *)
(* whose position is in the union of the selector's numbers and ranges, in *)
(* ascending order, and every other row gets no resolution, no fetch, no   *)
(* ledger update and no field mutation.                                    *)
(***************************************************************************)
SelectorRows ==
    UNION {PartRows(args.rows[n]) : n \in 1..Len(args.rows)} \cap DOMAIN rows0

C15_RowRange ==
    (tool = "thumbnails" /\ runs > 0 /\ ~args.dry_run /\ args.rows # <<>>) =>
        /\ rows_to_process = sorted(SelectorRows)
        /\ \A i \in DOMAIN rows0 \ SelectorRows :
                /\ i \notin resolved \cup fetched \cup waits \cup ledgerMarks
                /\ outcome[i] = "none"
                /\ rows[i] = rows0[i]

(***************************************************************************)
(* C16.  Failure is not sticky: a row is skipped as already completed only *)
(* when its id is in the completed list, and a selected row with a failed  *)
(* entry under its id that the empty-link and local-reference checks let   *)
(* through is, once the loop is done with it, either resolved over the     *)
(* network again or skipped because the id is completed.                   *)
(***************************************************************************)
C16_FailureNotSticky ==
    tool = "thumbnails" =>
        \A i \in Selected :
            /\ outcome[i] = "skipped: completed" =>
                    \E j \in 1..Len(progress.completed_ids) :
                        progress.completed_ids[j] = Id(i)
            /\ ( /\ Done(i)
                 /\ HasId(i)
                 /\ Id(i) \in DOMAIN progress.failed_ids
                 /\ ~should_skip(strip(rows0[i][IMG])) )
               => \/ i \in resolved
                  \/ outcome[i] = "skipped: completed"

\* a second run downloaded a row whose id an earlier run had recorded as
\* failed: no row of this run failed, the entry is the earlier run's
C16_Witness ==
    /\ tool = "thumbnails"
    /\ runs = 2
    /\ \A j \in DOMAIN failReason : failReason[j] = ""
    /\ \E i \in Selected :
            /\ outcome[i] = "downloaded"
            /\ i \in resolved
            /\ Id(i) \in DOMAIN progress.failed_ids

(***************************************************************************)
(* C17.  A run that is not a dry run, had rows to process and ended by     *)
(* itself after its row loop has printed its summary, and has              *)
(* written the failure report when some row failed, whether the rewrite    *)
(* went through, failed or was not needed.                                 *)
(***************************************************************************)
C17_SummaryAlways ==
    (pc = "exited" /\ status \in {"ok", "error"} /\ rows_to_process # <<>>) =>
        /\ summaries = 1
        /\ failed_urls # <<>> =>
                IF tool = "thumbnails"
                THEN failedReport = failed_urls
                ELSE ytReport = failed_urls

(***************************************************************************)
(* C18.  As stated: in the video pipeline a field of a row differs from    *)
(* its loaded value only if it is the description, the date or the image   *)
(* reference, and the description or the date only if it was empty at      *)
(* load.                                                                   *)
(***************************************************************************)
C18_OnlyAbsentFields ==
    tool = "youtube" =>
        \A i \in DOMAIN rows : \A name \in DOMAIN rows[i] :
            rows[i][name] # rows0[i][name] =>
                /\ name \in {DESCRIPTION, DATE, IMG}
                /\ name \in {DESCRIPTION, DATE} => strip(rows0[i][name]) = <<>>

(***************************************************************************)
(* C18, amended.  A field of a row differs from its loaded value only if   *)
(* the row was updated and the field is the description, the date or the   *)
(* image reference.  The date and the image reference change only when     *)
(* they were empty (after trimming) at load; the description changes only  *)
(* when it was empty at load or equal to the title of the row.             *)
(***************************************************************************)
C18_FieldsWrittenWhenMissing ==
    tool = "youtube" =>
        \A i \in DOMAIN rows : \A name \in DOMAIN rows[i] :
            rows[i][name] # rows0[i][name] =>
                /\ outcome[i] = "updated"
                /\ name \in {DESCRIPTION, DATE, IMG}
                /\ name \in {DATE, IMG} => strip(rows0[i][name]) = <<>>
                /\ name = DESCRIPTION =>
                        \/ strip(rows0[i][DESCRIPTION]) = <<>>
                        \/ strip(rows0[i][DESCRIPTION]) = strip(rows0[i][TITLE])

\* a row whose description repeated its title got the fetched description and
\* kept its date and its image reference
C18_Witness ==
    /\ tool = "youtube"
    /\ \E i \in DOMAIN rows :
            /\ outcome[i] = "updated"
            /\ strip(rows0[i][DESCRIPTION]) # <<>>
            /\ rows[i][DESCRIPTION] # rows0[i][DESCRIPTION]
            /\ rows0[i][DATE] # <<>>
            /\ rows[i][DATE] = rows0[i][DATE]
            /\ rows[i][IMG] = rows0[i][IMG]

(***************************************************************************)
(* C19.  Unless the backup is disabled or the run is a dry run, from the   *)
(* start of the row loop on the backup copy holds the dataset file as it   *)
(* was at the start of the run; so it does at the step that rewrites the   *)
(* dataset file and at the integrity check.  (The video pipeline takes its *)
(* backup only when it has rows to process.)                               *)
(***************************************************************************)
Backup == IF tool = "thumbnails" THEN backupFile ELSE backup3File

BackupDue ==
    /\ runs > 0
    /\ ~args.dry_run
    /\ ~args.no_backup
    /\ tool = "youtube" => rows_to_process # <<>>

C19_BackupBeforeRewrite ==
    /\ [](BackupDue => Backup.exists /\ Backup.content = csvAtStart)
    /\ [][ (csvFile' # csvFile /\ ~args.no_backup) =>
                Backup.exists /\ Backup.content = csvFile ]_vars

\* the integrity check after a rewrite that changed the dataset file
C19_Witness ==
    /\ pc = "integrity"
    /\ csvFile # csvAtStart
    /\ backupFile.content = csvAtStart


(***************************************************************************)
(* C20  Rate limiting.                                                     *)
(***************************************************************************)
IsWait(j) == limiter.log[j].ev = "wait"
IsCall(j) == limiter.log[j].ev # "wait"
\* the wait before position j, none between the two
PrevWait(i, j) ==
    /\ i < j
    /\ IsWait(i)
    /\ \A m \in (i + 1)..(j - 1) : ~IsWait(m)

\* C20 as stated: every outbound call of a resolver (the primary embed call,
\* the fallback page fetch and the keyed metadata lookup) comes right after
\* a wait(); a wait() returns no earlier than the configured interval after
\* the start of the wait() before it; and a resolution that makes both calls
\* sends them at least the interval apart.
C20_EveryCallRateLimited ==
    \A j \in DOMAIN limiter.log :
        /\ IsCall(j) => j > 1 /\ IsWait(j - 1)
        /\ IsWait(j) =>
               \A i \in DOMAIN limiter.log :
                   PrevWait(i, j) =>
                       limiter.log[j].ret >= limiter.log[i].start + limiter.delay
        /\ limiter.log[j].ev = "fallback" =>
               /\ j > 2
               /\ limiter.log[j - 2].ev = "primary"
               /\ limiter.log[j].start >= limiter.log[j - 2].start + limiter.delay

\* C20, amended: the limiter belongs to the thumbnail resolver.  Each of its
\* calls, primary and fallback, is sent after a wait() of its own has
\* returned; a wait() returns no earlier than the configured interval after
\* the return (hence after the start) of the wait() before it; so a
\* resolution that makes both calls waits twice and sends the fallback call
\* no earlier than the interval after the return of the first wait.  The
\* keyed metadata lookup is sent without any wait().
C20_ThumbnailCallsRateLimited ==
    /\ tool = "thumbnails" =>
           \A j \in DOMAIN limiter.log :
               /\ IsCall(j) =>
                      /\ limiter.log[j].ev \in {"primary", "fallback"}
                      /\ j > 1
                      /\ IsWait(j - 1)
                      /\ limiter.log[j].start >= limiter.log[j - 1].ret
               /\ IsWait(j) =>
                      /\ limiter.log[j].ret >= limiter.log[j].start
                      /\ \A i \in DOMAIN limiter.log :
                             PrevWait(i, j) =>
                                 /\ limiter.log[j].ret >=
                                        limiter.log[i].ret + limiter.delay
                                 /\ limiter.log[j].ret >=
                                        limiter.log[i].start + limiter.delay
               /\ limiter.log[j].ev = "fallback" =>
                      /\ j > 3
                      /\ limiter.log[j - 2].ev = "primary"
                      /\ IsWait(j - 3)
                      /\ limiter.log[j].start >=
                             limiter.log[j - 3].ret + limiter.delay
    /\ tool = "youtube" =>
           \A j \in DOMAIN limiter.log : limiter.log[j].ev = "lookup"

\* a resolution made both calls, and its second wait() had to sleep
C20_Witness ==
    /\ tool = "thumbnails"
    /\ limiter.delay = DEFAULT_DELAY
    /\ Len(limiter.log) >= 4
    /\ limiter.log[1].ev = "wait"
    /\ limiter.log[2].ev = "primary"
    /\ limiter.log[3].ev = "wait"
    /\ limiter.log[3].ret > limiter.log[3].start
    /\ limiter.log[4].ev = "fallback"


(***************************************************************************)
(* C21  One ledger state per id.                                           *)
(***************************************************************************)
FailedOnDisk == DOMAIN OnDisk.failed_ids

\* C21: in the persisted ledger no id is at once in the completed list and in
\* the failed-id mapping.
C21_OneLedgerState == CompletedOnDisk \cap FailedOnDisk = {}


(***************************************************************************)
(* C22  Skip-existing.                                                     *)
(***************************************************************************)
\* download() is called for the row in hand
DownloadCalled == pc = "download" /\ Len(netlog'[Cur]) = Len(netlog[Cur]) + 1

\* shutil.move puts the verified temp file on a final path that holds a file
Overwrites == pc = "verify" /\ pc' = "success" /\ exists(files, filepath)

\* C22: with skip-existing on and a file at the target name, download()
\* returns success without a network call and leaves the files as they are;
\* and a fetch overwrites (or a step removes) an asset file that exists only
\* when skip-existing is off.
C22_SkipExisting ==
    [][ /\ (DownloadCalled /\ args.skip_existing /\ exists(files, filepath)) =>
              /\ pc' = "success"
              /\ Last(netlog'[Cur]) = "get:existing"
              /\ files' = files
        /\ (Overwrites \/ \E f \in Assets(files) : f \notin files') =>
              ~args.skip_existing
      ]_vars

\* download() returned success for a file that was in place, without a call
C22_Witness ==
    /\ pc = "success"
    /\ args.skip_existing
    /\ Last(netlog[Cur]) = "get:existing"
    /\ exists(files, filepath)


(***************************************************************************)
(* C23  Failed verification.                                               *)
(***************************************************************************)
\* lines 227-232: the step from the verification to the removal or the move
VerifyStep == pc = "verify" /\ files' # files

\* C23: when the temp file is not an image, the temp file is deleted, the
\* download is reported as failed and the final asset path is neither
\* created nor modified; and whenever a download puts a file on the final
\* path, the temp file it moves there is an image.
C23_VerificationFailure ==
    [][ VerifyStep =>
          IF content(files, TempPath(filepath)) # "image"
          THEN /\ ~exists(files', TempPath(filepath))
               /\ Assets(files') = Assets(files)
               /\ pc' = "save_failed"
               /\ failReason'[Cur] = "Download failed"
               /\ rows' = rows
          ELSE /\ pc' = "success"
               /\ exists(files', filepath)
               /\ content(files', filepath) = "image"
      ]_vars

\* a download whose body was not an image has been reported as failed, its
\* temp file is gone and no file is on its final path
C23_Witness ==
    /\ pc = "save_failed"
    /\ Last(netlog[Cur]) = "body:garbage"
    /\ ~exists(files, TempPath(filepath))
    /\ ~exists(files, filepath)


(***************************************************************************)
(* C24  Loading the ledger.                                                *)
(***************************************************************************)
\* the file is a ledger: json.load gives an object with both sections
WellFormed(file) ==
    /\ file.exists
    /\ file.valid
    /\ HasSections(file.data)

\* C24: loading the ledger is never fatal: the process goes on after the
\* load, and when the file is missing, unreadable, unparseable or lacks a
\* section the tracker starts as the empty ledger.
C24_LoadNeverFatal ==
    [][ (pc = "idle" /\ ledgerCall'.op = "load") =>
            /\ status' # "raised"
            /\ ~WellFormed(ledgerFile) => progress' = EmptyLedger ]_vars


(***************************************************************************)
(* C25  mark_completed is idempotent.                                      *)
(***************************************************************************)
NoDuplicates(seq) == \A i, j \in 1..Len(seq) : seq[i] = seq[j] => i = j
InList(seq, x) == \E i \in 1..Len(seq) : seq[i] = x

\* C25: a call of mark_completed or mark_failed on a ledger whose completed
\* list names no id twice leaves a completed list that names no id twice, in
\* memory and in the file it saves; and mark_completed of an id that is in
\* the list leaves the list as it is.
C25_MarkCompletedIdempotent ==
    [][ (pc = "ledger" /\ pc' = "ledger") =>
            /\ NoDuplicates(progress.completed_ids) =>
                   /\ NoDuplicates(progress'.completed_ids)
                   /\ NoDuplicates(ledgerFile'.data.completed_ids)
            /\ ( /\ ledgerCall'.op = "mark_completed"
                 /\ InList(progress.completed_ids, ledgerCall'.id) ) =>
                   progress'.completed_ids = progress.completed_ids
            /\ ledgerCall'.op = "mark_completed" =>
                   InList(progress'.completed_ids, ledgerCall'.id)
      ]_vars

\* the last call was mark_completed of the id at the head of a list of two
\* ids: had the call appended the id, it would be the last
C25_Witness ==
    /\ pc = "ledger"
    /\ ledgerCall.op = "mark_completed"
    /\ Len(progress.completed_ids) = 2
    /\ NoDuplicates(progress.completed_ids)
    /\ progress.completed_ids[1] = ledgerCall.id


(***************************************************************************)
(* C26  No deduplication across rows.                                      *)
(***************************************************************************)
\* the row as loaded passes the empty-link test and the local-reference test
PastSkipChecks(i) ==
    /\ rows0[i][LINK] # None
    /\ rows0[i][IMG] # None
    /\ ~NoLink(strip(rows0[i][LINK]))
    /\ ~should_skip(strip(rows0[i][IMG]))

\* C26: when two selected rows carry the same source URL and neither is
\* skipped by the empty-link or the local-reference check, then once the loop
\* is done with both, each of them went through resolution (and, resolved,
\* through the fetch), and each one that succeeded has the local asset path
\* as its reference.
C26_NoDedupAcrossRows ==
    tool = "thumbnails" =>
        \A i, j \in Selected :
            ( /\ i # j
              /\ PastSkipChecks(i)
              /\ PastSkipChecks(j)
              /\ strip(rows0[i][LINK]) = strip(rows0[j][LINK])
              /\ HasId(i)
              /\ Done(i)
              /\ Done(j) ) =>
                \A r \in {i, j} :
                    /\ outcome[r] \in {"downloaded", "failed"}
                    /\ r \in resolved
                    /\ outcome[r] = "downloaded" =>
                           /\ r \in fetched
                           /\ startswith(rows[r][IMG], <<args.output_dir, "/">>)


(***************************************************************************)
(* C27  The identity of a remote item.                                     *)
(***************************************************************************)
\* (url_type, post_id) of the row at position i, as the run parsed it
Item(i) == parse_instagram_url(strip(rows0[i][LINK]))

\* The asset of the row's item is in an output directory.  Assets are never
\* deleted and an item is completed only after its asset was moved in place,
\* so an item without an asset was never completed.
AssetOfItem(i) ==
    \E f \in Assets(files) :
        \E dir \in {"images", "thumbs"} :
            f.path = LocalRef(dir, Filename(Item(i).url_type, Item(i).post_id))

\* C27: a row is skipped as already completed only if the item with its
\* (url_type, post_id) pair was completed before: completing post X never
\* makes the run skip a reel row with the id X.
C27_SkipOnlySameItem ==
    tool = "thumbnails" =>
        \A i \in DOMAIN outcome :
            outcome[i] = "skipped: completed" => AssetOfItem(i)


(***************************************************************************)
(* C28  No temp file after download().                                     *)
(***************************************************************************)
\* download() returns, True or False
DownloadReturns ==
    /\ pc \in {"download", "stream", "verify"}
    /\ pc' \in {"success", "save_failed"}

\* C28: whenever download() returns, with success or with failure for any
\* cause, the temp file of that download is not in the output directory.
C28_NoTempLeft ==
    [][ DownloadReturns => ~exists(files', TempPath(filepath)) ]_vars


(***************************************************************************)
(* C29  Statistics conservation.                                           *)
(***************************************************************************)
\* the loop stands between two rows, or the run went to its end
BetweenRows ==
    \/ pc \in {"row", "finish", "integrity", "summary",
               "yt_row", "yt_finish", "yt_summary"}
    \/ pc = "exited" /\ status \in {"ok", "error", "dry"}

Succeeded == IF tool = "thumbnails" THEN stats.downloaded ELSE stats.updated
RowsWith(outcomes) == {i \in Selected : outcome[i] \in outcomes}

\* C29: after each row's processing finishes and at the end of the run, the
\* total equals succeeded + skipped + failed, every selected row the loop is
\* done with is counted in exactly the counter of its outcome, and the
\* failure list is as long as the failed counter.
C29_StatsConserved ==
    (runs > 0 /\ BetweenRows) =>
        /\ stats.total = Succeeded + stats.skipped + stats.failed
        /\ stats.total = Cardinality({i \in Selected : outcome[i] # "none"})
        /\ Succeeded = Cardinality(RowsWith({"downloaded", "updated"}))
        /\ stats.skipped =
               Cardinality(RowsWith({"skipped: no link", "skipped: local image",
                                     "skipped: completed", "skipped: has data"}))
        /\ stats.failed = Cardinality(RowsWith({"failed"}))
        /\ Len(failed_urls) = stats.failed

\* a run of two rows ended with one row downloaded and one failed
C29_Witness ==
    /\ tool = "thumbnails"
    /\ pc = "exited"
    /\ status = "ok"
    /\ stats.total = 2
    /\ stats.downloaded = 1
    /\ stats.failed = 1
    /\ Len(failed_urls) = 1

=============================================================================
